---- MODULE Spec2Model ----
(***************************************************************************)
(* NearSafeCell<T> (src/src/lib.rs) and the fixed-buffer formatting        *)
(* harness of its tests (src/src/test_utilities.rs).                       *)
(*                                                                         *)
(* Memory is word addressed: a wrapped value of n elements occupies the n  *)
(* addresses from the cell's address on (a scalar is the case n = 1).  A   *)
(* view (a Rust reference) is a pointer, a length and a kind; reads and    *)
(* writes through a view go to mem[ptr + i].  Callers follow the           *)
(* documented safety contracts of the unsafe accessors.                    *)
(***************************************************************************)
EXTENDS Integers, Sequences, FiniteSets, TLC

VARIABLES
    mem,      \* [Addr -> Int]: the machine memory
    cells,    \* [CellIds -> [st, addr, len]]: the NearSafeCell instances
    views,    \* [ViewIds -> live view or NoView]: the references callers hold
    created,  \* the references the latest accessor call materialised
    obs,      \* the latest read through a view
    result,   \* what the latest unwrap() returned, per cell
    shadow,   \* per cell: the value the callers last wrote, by logical index
    newArg,   \* per cell: the argument of the latest new()
    dirty,    \* per cell: written to since the latest new()
    pc,       \* per concurrent caller: where it is in its program
    own,      \* per concurrent caller: its part of the value as it last wrote it
    arena,    \* the bytes of the caller's output buffer, and the bytes after it
    w,        \* the Buffer of the format() call: [len, used]
    fmtReq,   \* the latest rendering request: [trait, ty, val]
    fmtRes,   \* what the latest format() call returned: [ok, text]
    log       \* the write_str calls of the format() call so far: [s, ok] each

cellVars == <<mem, cells, views, created, obs, result, shadow, newArg, dirty>>
concVars == <<pc, own>>
fmtVars == <<arena, w, fmtReq, fmtRes, log>>
vars == <<cellVars, concVars, fmtVars>>

----------------------------------------------------------------------------
(* Bounds and inputs *)

MaxViews == 2

SlotSize == 5

CellIds == {1, 2}
ViewIds == 1..MaxViews
\* the slots of the cells, and the word after the last slot
Addr == 0..(2 * SlotSize)
Callers == {1, 2}

\* Values handed to new(): a scalar, and the array of tests::indexing.
InitVals == {<<24>>, <<1, 2, 3, 4, 5>>}
\* Values callers write through exclusive views.
WriteVals == {24, 42}
\* Index selectors (half-open ranges lo..hi, 0-based) callers pass; 2..2
\* selects nothing.
Selectors == {<<0, 2>>, <<2, 5>>, <<1, 3>>, <<2, 2>>}

Min(a, b) == IF a < b THEN a ELSE b

NoView == [kind |-> "none"]
NoObs == [id |-> 0]
NoCreated == [ret |-> 0, tmp |-> {}]
NoValue == <<>>

----------------------------------------------------------------------------
(* The cell's accessors, as functions of the cell record cl *)

Slot(c) == (c - 1) * SlotSize

\* T::default() for the element counts used here
Default(n) == [i \in 1..n |-> 0]

\* UnsafeCell::get: the address of the wrapped value is the cell's own
UnsafeCell_get(cl) == cl.addr

get_ptr(cl) == UnsafeCell_get(cl)

get_mut_ptr_off1(cl) == UnsafeCell_get(cl) + 1
get_mut_ptr(cl) == UnsafeCell_get(cl)

\* &*p and &mut *p for p: *T
RefTo(p, n) == [kind |-> "shared", ptr |-> p, len |-> n]
MutTo(p, n) == [kind |-> "mut", ptr |-> p, len |-> n]

get(cl) == RefTo(get_ptr(cl), cl.len)

\* UnsafeCell::get_mut: &mut self.value
get_mut_off1(cl) == MutTo(cl.addr + 1, cl.len)
get_mut(cl) == MutTo(cl.addr, cl.len)

get_mut_unsafe_off1(cl) == MutTo(get_mut_ptr(cl) + 1, cl.len)
get_mut_unsafe(cl) == MutTo(get_mut_ptr(cl), cl.len)

as_ref(cl) == get(cl)
as_mut(cl) == get_mut(cl)
deref(cl) == get(cl)
deref_mut(cl) == get_mut(cl)

\* core's Index/IndexMut of arrays and slices by a range: the sub-slice
index(v, sel) == [kind |-> v.kind, ptr |-> v.ptr + sel[1], len |-> sel[2] - sel[1]]
index_mut_from_start(v, sel) == [kind |-> v.kind, ptr |-> v.ptr, len |-> sel[2] - sel[1]]
index_mut(v, sel) == [kind |-> v.kind, ptr |-> v.ptr + sel[1], len |-> sel[2] - sel[1]]

\* (*self.get_mut_ptr()).index_mut(idx): index_mut takes &mut self, so the
\* place *self.get_mut_ptr() is first borrowed exclusively as a whole.  No
\* load or store goes through that borrow (index_mut of an array or slice
\* only computes the sub-slice), so memory is as without it.
index_mut_receiver(cl) == MutTo(get_mut_ptr(cl), cl.len)
index_mut_unchecked_whole(cl, sel) == index_mut_receiver(cl)
index_mut_unchecked(cl, sel) == index_mut(index_mut_receiver(cl), sel)

\* cell.index(sel) of safe code: deref() and then Index
index_receiver(cl) == deref(cl)
cell_index(cl, sel) == index(index_receiver(cl), sel)

\* UnsafeCell::into_inner: the wrapped value, read out of the cell's storage
unwrap_first(m, cl) == [i \in 1..cl.len |-> m[cl.addr]]
unwrap(m, cl) == [i \in 1..cl.len |-> m[cl.addr + i - 1]]

\* UnsafeCell::new(val): val is stored where the cell lives, in fresh storage
\* (the words of the slot past the value are not part of it and read 0)
new(m, a, val) ==
    [x \in Addr |-> IF x >= a /\ x < a + Len(val) THEN val[x - a + 1]
                    ELSE IF x >= a /\ x < a + SlotSize THEN 0 ELSE m[x]]

\* *view (all of it, as assert_eq!(view, ..) reads it) and view[i] = x
ReadVia(m, v) == [i \in 1..v.len |-> m[v.ptr + i - 1]]
WriteVia(m, v, i, x) == [m EXCEPT ![v.ptr + i] = x]

----------------------------------------------------------------------------
(* The callers' discipline: the borrow checker for the safe accessors, the *)
(* documented safety contract for the unsafe ones                          *)

Live(id) == views[id].kind # "none"
LiveOn(c) == {id \in ViewIds : Live(id) /\ views[id].cell = c}
FreeIds == {id \in ViewIds : ~Live(id)}
NextId == CHOOSE id \in FreeIds : \A j \in FreeIds : id <= j

\* The ranges lo1..hi1 and lo2..hi2 have an element in common
Overlap(lo1, hi1, lo2, hi2) == lo1 < hi2 /\ lo2 < hi1 /\ lo1 < hi1 /\ lo2 < hi2

\* Two references conflict when they cover a common element and one of them
\* is exclusive
Conflict(v, u) ==
    /\ Overlap(v.ptr, v.ptr + v.len, u.ptr, u.ptr + u.len)
    /\ (v.kind = "mut" \/ u.kind = "mut")

Whole(c) == <<0, cells[c].len>>

\* A view of kind over sel may be taken of cell c: with every live view it
\* either shares (both are shared views), or neither is a view of the whole
\* value and the two have no element in common
MayTake(c, kind, sel) ==
    \A id \in LiveOn(c) :
        ~(/\ (kind = "mut" \/ views[id].kind = "mut")
          /\ \/ sel = Whole(c)
             \/ views[id].sel = Whole(c)
             \/ Overlap(sel[1], sel[2], views[id].sel[1], views[id].sel[2]))

Held(c, v, sel) == [kind |-> v.kind, ptr |-> v.ptr, len |-> v.len, cell |-> c, sel |-> sel]

\* No formatting is going on
NoFmt ==
    /\ arena = <<>>
    /\ w = [len |-> 0, used |-> 0]
    /\ fmtReq = [trait |-> "none"]
    /\ fmtRes = [ok |-> FALSE]
    /\ log = <<>>

----------------------------------------------------------------------------
(* Single-threaded use of cell 1 *)

Init ==
    /\ mem = [x \in Addr |-> 0]
    /\ cells = [c \in CellIds |-> [st |-> "none", addr |-> Slot(c), len |-> 0]]
    /\ views = [id \in ViewIds |-> NoView]
    /\ created = NoCreated
    /\ obs = NoObs
    /\ result = [c \in CellIds |-> NoValue]
    /\ shadow = [c \in CellIds |-> NoValue]
    /\ newArg = [c \in CellIds |-> NoValue]
    /\ dirty = [c \in CellIds |-> FALSE]
    /\ pc = [p \in Callers |-> "none"]
    /\ own = [p \in Callers |-> NoValue]
    /\ NoFmt

\* let cell = NearSafeCell::new(val), or cell = NearSafeCell::new(val)
NewOp(c, val) ==
    /\ LiveOn(c) = {}
    /\ mem' = new(mem, cells[c].addr, val)
    /\ cells' = [cells EXCEPT ![c] = [st |-> "live", addr |-> cells[c].addr, len |-> Len(val)]]
    /\ shadow' = [shadow EXCEPT ![c] = val]
    /\ newArg' = [newArg EXCEPT ![c] = val]
    /\ dirty' = [dirty EXCEPT ![c] = FALSE]
    /\ result' = [result EXCEPT ![c] = NoValue]
    /\ created' = NoCreated
    /\ obs' = NoObs
    /\ UNCHANGED <<views, concVars, fmtVars>>

New(c) == \E val \in InitVals : NewOp(c, val)

\* NearSafeCell::<T>::default()
DefaultNew(c) == \E n \in {Len(val) : val \in InitVals} : NewOp(c, Default(n))

Unwrap(c) ==
    /\ cells[c].st = "live"
    /\ LiveOn(c) = {}
    /\ result' = [result EXCEPT ![c] = unwrap(mem, cells[c])]
    /\ cells' = [cells EXCEPT ![c].st = "consumed"]
    /\ created' = NoCreated
    /\ obs' = NoObs
    /\ UNCHANGED <<mem, views, shadow, newArg, dirty, fmtVars>>

\* The caller keeps the reference v, asked for as sel; tmp are the
\* references the call made on the way
Take(c, v, sel, tmp) ==
    /\ cells[c].st = "live"
    /\ FreeIds # {}
    /\ MayTake(c, v.kind, sel)
    /\ views' = [views EXCEPT ![NextId] = Held(c, v, sel)]
    /\ created' = [ret |-> NextId, tmp |-> tmp]
    /\ obs' = NoObs
    /\ UNCHANGED <<mem, cells, result, shadow, newArg, dirty, concVars, fmtVars>>

Get(c) == Take(c, get(cells[c]), Whole(c), {})
AsRef(c) == Take(c, as_ref(cells[c]), Whole(c), {})
Deref(c) == Take(c, deref(cells[c]), Whole(c), {})
GetMut(c) == Take(c, get_mut(cells[c]), Whole(c), {})
AsMut(c) == Take(c, as_mut(cells[c]), Whole(c), {})
DerefMut(c) == Take(c, deref_mut(cells[c]), Whole(c), {})
GetMutUnsafe(c) == Take(c, get_mut_unsafe(cells[c]), Whole(c), {})

\* core's range check of a slice index: start <= end <= len, else a panic
InBounds(c, sel) == sel[1] <= sel[2] /\ sel[2] <= cells[c].len

Index(c) ==
    \E sel \in Selectors :
        /\ InBounds(c, sel)
        /\ Take(c, cell_index(cells[c], sel), sel, {index_receiver(cells[c])})

IndexMutUnchecked(c) ==
    \E sel \in Selectors :
        /\ InBounds(c, sel)
        /\ Take(c, index_mut_unchecked(cells[c], sel), sel, {index_mut_receiver(cells[c])})

\* x = *view
Read(id) ==
    /\ Live(id)
    /\ obs' = [id |-> id, val |-> ReadVia(mem, views[id])]
    /\ created' = NoCreated
    /\ UNCHANGED <<mem, cells, views, result, shadow, newArg, dirty, concVars, fmtVars>>

\* view[i] = x
Write(id) ==
    /\ Live(id)
    /\ views[id].kind = "mut"
    /\ \E i \in 0..(views[id].sel[2] - views[id].sel[1] - 1), x \in WriteVals :
        /\ mem' = WriteVia(mem, views[id], i, x)
        /\ shadow' = [shadow EXCEPT ![views[id].cell][views[id].sel[1] + i + 1] = x]
    /\ dirty' = [dirty EXCEPT ![views[id].cell] = TRUE]
    /\ obs' = NoObs
    /\ created' = NoCreated
    /\ UNCHANGED <<cells, views, result, newArg, concVars, fmtVars>>

\* the reference goes out of scope
Drop(id) ==
    /\ Live(id)
    /\ views' = [views EXCEPT ![id] = NoView]
    /\ created' = NoCreated
    /\ obs' = NoObs
    /\ UNCHANGED <<mem, cells, result, shadow, newArg, dirty, concVars, fmtVars>>

Next ==
    \/ New(1)
    \/ DefaultNew(1)
    \/ Unwrap(1) /\ UNCHANGED concVars
    \/ Get(1)
    \/ AsRef(1)
    \/ Deref(1)
    \/ GetMut(1)
    \/ AsMut(1)
    \/ DerefMut(1)
    \/ GetMutUnsafe(1)
    \/ Index(1)
    \/ IndexMutUnchecked(1)
    \/ \E id \in ViewIds : Read(id)
    \/ \E id \in ViewIds : Write(id)
    \/ \E id \in ViewIds : Drop(id)

Spec == Init /\ [][Next]_vars

----------------------------------------------------------------------------
(* Two cells driven in lockstep: cell 1 through get_mut(), cell 2 through  *)
(* get_mut_unsafe() with no other view alive (its safety contract)         *)

EqNew ==
    \E val \in InitVals \cup {Default(1)} :
        /\ \A c \in CellIds : LiveOn(c) = {}
        /\ mem' = new(new(mem, cells[1].addr, val), cells[2].addr, val)
        /\ cells' = [c \in CellIds |-> [st |-> "live", addr |-> cells[c].addr, len |-> Len(val)]]
        /\ shadow' = [c \in CellIds |-> val]
        /\ newArg' = [c \in CellIds |-> val]
        /\ dirty' = [c \in CellIds |-> FALSE]
        /\ result' = [c \in CellIds |-> NoValue]
        /\ created' = NoCreated
        /\ obs' = NoObs
        /\ UNCHANGED <<views, concVars, fmtVars>>

\* let a = cell1.get_mut(); let b = unsafe { cell2.get_mut_unsafe() };
EqTake ==
    /\ \A c \in CellIds : cells[c].st = "live" /\ LiveOn(c) = {}
    /\ views' = [views EXCEPT ![1] = Held(1, get_mut(cells[1]), Whole(1)),
                              ![2] = Held(2, get_mut_unsafe(cells[2]), Whole(2))]
    /\ created' = NoCreated
    /\ obs' = NoObs
    /\ UNCHANGED <<mem, cells, result, shadow, newArg, dirty, concVars, fmtVars>>

\* a[i] = x; b[i] = x;
EqWrite ==
    /\ Live(1) /\ Live(2)
    /\ \E i \in 0..(cells[1].len - 1), x \in WriteVals :
        /\ mem' = WriteVia(WriteVia(mem, views[1], i, x), views[2], i, x)
        /\ shadow' = [c \in CellIds |-> [shadow[c] EXCEPT ![i + 1] = x]]
    /\ dirty' = [c \in CellIds |-> TRUE]
    /\ obs' = NoObs
    /\ created' = NoCreated
    /\ UNCHANGED <<cells, views, result, newArg, concVars, fmtVars>>

\* (*a, *b)
EqRead ==
    /\ Live(1) /\ Live(2)
    /\ obs' = [id |-> 1, val |-> ReadVia(mem, views[1]), val2 |-> ReadVia(mem, views[2])]
    /\ created' = NoCreated
    /\ UNCHANGED <<mem, cells, views, result, shadow, newArg, dirty, concVars, fmtVars>>

EqDrop ==
    /\ Live(1) /\ Live(2)
    /\ views' = [views EXCEPT ![1] = NoView, ![2] = NoView]
    /\ created' = NoCreated
    /\ obs' = NoObs
    /\ UNCHANGED <<mem, cells, result, shadow, newArg, dirty, concVars, fmtVars>>

EqUnwrap ==
    /\ \A c \in CellIds : cells[c].st = "live" /\ LiveOn(c) = {}
    /\ result' = [c \in CellIds |-> unwrap(mem, cells[c])]
    /\ cells' = [c \in CellIds |-> [cells[c] EXCEPT !.st = "consumed"]]
    /\ created' = NoCreated
    /\ obs' = NoObs
    /\ UNCHANGED <<mem, views, shadow, newArg, dirty, concVars, fmtVars>>

EqNext ==
    \/ EqNew
    \/ EqTake
    \/ EqWrite
    \/ EqRead
    \/ EqDrop
    \/ EqUnwrap

SpecEquiv == Init /\ [][EqNext]_vars

----------------------------------------------------------------------------
(* Two concurrent callers sharing cell 1, each with a view from            *)
(* index_mut_unchecked over its own selector, the selectors disjoint.      *)
(* Every step is one call, one read or one write of one element by one     *)
(* caller; the steps of the two callers interleave freely.                 *)

DisjointPairs ==
    {ss \in Selectors \X Selectors : ~Overlap(ss[1][1], ss[1][2], ss[2][1], ss[2][2])}

\* The cell is built and shared, and the callers are given their selectors
ConcInit ==
    \E val \in InitVals, ss \in DisjointPairs :
        /\ ss[1][2] <= Len(val) /\ ss[2][2] <= Len(val)
        /\ mem = new([x \in Addr |-> 0], Slot(1), val)
        /\ cells = [c \in CellIds |->
                IF c = 1 THEN [st |-> "live", addr |-> Slot(c), len |-> Len(val)]
                ELSE [st |-> "none", addr |-> Slot(c), len |-> 0]]
        /\ views = [id \in ViewIds |-> NoView]
        /\ created = NoCreated
        /\ obs = NoObs
        /\ result = [c \in CellIds |-> NoValue]
        /\ shadow = [c \in CellIds |-> IF c = 1 THEN val ELSE NoValue]
        /\ newArg = [c \in CellIds |-> IF c = 1 THEN val ELSE NoValue]
        /\ dirty = [c \in CellIds |-> FALSE]
        /\ pc = [p \in Callers |-> [at |-> "start", sel |-> ss[p]]]
        /\ own = [p \in Callers |-> SubSeq(val, ss[p][1] + 1, ss[p][2])]
        /\ NoFmt

\* let part = unsafe { cell.index_mut_unchecked(sel) };
CallIndexMutUnchecked(p) ==
    /\ pc[p].at = "start"
    /\ views' = [views EXCEPT ![p] =
            Held(1, index_mut_unchecked(cells[1], pc[p].sel), pc[p].sel)]
    /\ created' = [ret |-> p, tmp |-> {index_mut_receiver(cells[1])}]
    /\ pc' = [pc EXCEPT ![p].at = "holding"]
    /\ obs' = NoObs
    /\ UNCHANGED <<mem, cells, result, shadow, newArg, dirty, own, fmtVars>>

\* part[i] = x
CallerWrite(p) ==
    /\ pc[p].at = "holding"
    /\ \E i \in 0..(pc[p].sel[2] - pc[p].sel[1] - 1), x \in WriteVals :
        /\ mem' = WriteVia(mem, views[p], i, x)
        /\ own' = [own EXCEPT ![p][i + 1] = x]
        /\ shadow' = [shadow EXCEPT ![1][pc[p].sel[1] + i + 1] = x]
    /\ dirty' = [dirty EXCEPT ![1] = TRUE]
    /\ obs' = NoObs
    /\ created' = NoCreated
    /\ UNCHANGED <<cells, views, result, newArg, pc, fmtVars>>

\* x = *part
CallerRead(p) ==
    /\ pc[p].at = "holding"
    /\ obs' = [id |-> p, val |-> ReadVia(mem, views[p])]
    /\ created' = NoCreated
    /\ UNCHANGED <<mem, cells, views, result, shadow, newArg, dirty, pc, own, fmtVars>>

\* the caller is done and its view goes out of scope
CallerDone(p) ==
    /\ pc[p].at = "holding"
    /\ views' = [views EXCEPT ![p] = NoView]
    /\ pc' = [pc EXCEPT ![p].at = "done"]
    /\ created' = NoCreated
    /\ obs' = NoObs
    /\ UNCHANGED <<mem, cells, result, shadow, newArg, dirty, own, fmtVars>>

\* both callers joined: cell.unwrap()
JoinUnwrap ==
    /\ \A p \in Callers : pc[p].at = "done"
    /\ Unwrap(1)
    /\ UNCHANGED concVars

ConcNext ==
    \/ \E p \in Callers : CallIndexMutUnchecked(p)
    \/ \E p \in Callers : CallerWrite(p)
    \/ \E p \in Callers : CallerRead(p)
    \/ \E p \in Callers : CallerDone(p)
    \/ JoinUnwrap

SpecConc == ConcInit /\ [][ConcNext]_vars

----------------------------------------------------------------------------
(* The fixed-buffer harness of the tests (test_utilities.rs).  The buffer  *)
(* is the first w.len bytes of arena; the bytes after it are not the       *)
(* buffer's.  A string is a sequence of one-character strings.             *)

MaxBuf == 3
MaxWrites == 3
SmallBufLen == 4
TestBufLen == 32
GuardLen == 2

Nul == "NUL"
Guard == "GUARD"

\* let mut buffer = [0u8; n], and what lies behind it
FreshArena(n) == [i \in 1..(n + GuardLen) |-> IF i <= n THEN Nul ELSE Guard]

\* Buffer::new
Buffer_new(n) == [len |-> n, used |-> 0]

\* Buffer::as_str
as_str(a, b) ==
    IF b.used <= b.len
    THEN [some |-> TRUE, str |-> SubSeq(a, 1, b.used)]
    ELSE [some |-> FALSE, str |-> <<>>]

\* <Buffer as core::fmt::Write>::write_str: the arena and the Buffer after
\* the call, and whether it returned Ok
write_str_ge(a, b, s) ==
    IF b.used >= b.len
    THEN [arena |-> a, w |-> b, ok |-> FALSE]
    ELSE LET write_num == Min(Len(s), b.len - b.used)
         IN [arena |-> [i \in DOMAIN a |->
                            IF b.used < i /\ i <= b.used + write_num
                            THEN s[i - b.used] ELSE a[i]],
             w |-> [b EXCEPT !.used = b.used + Len(s)],
             ok |-> ~(write_num < Len(s))]
write_str(a, b, s) ==
    IF b.used > b.len
    THEN [arena |-> a, w |-> b, ok |-> FALSE]
    ELSE LET write_num == Min(Len(s), b.len - b.used)
         IN [arena |-> [i \in DOMAIN a |->
                            IF b.used < i /\ i <= b.used + write_num
                            THEN s[i - b.used] ELSE a[i]],
             w |-> [b EXCEPT !.used = b.used + Len(s)],
             ok |-> ~(write_num < Len(s))]

\* core::fmt::write over a rendering that passes every error on: the pieces
\* go to write_str in order, up to the first that fails
RECURSIVE fmt_write(_, _, _)
fmt_write(a, b, pieces) ==
    IF pieces = <<>> THEN [arena |-> a, w |-> b, ok |-> TRUE]
    ELSE LET r == write_str(a, b, Head(pieces))
         IN IF r.ok THEN fmt_write(r.arena, r.w, Tail(pieces)) ELSE r

\* format(buffer, args): the arena afterwards and the Result
format(a, n, pieces) ==
    LET r == fmt_write(a, Buffer_new(n), pieces)
        str == as_str(r.arena, r.w)
    IN [arena |-> r.arena, w |-> r.w,
        ok |-> r.ok /\ str.some,
        text |-> IF r.ok /\ str.some THEN str.str ELSE <<>>]

RECURSIVE Concat(_)
Concat(pieces) == IF pieces = <<>> THEN <<>> ELSE Head(pieces) \o Concat(Tail(pieces))

----------------------------------------------------------------------------
(* The harness one write at a time (specification SpecBuf): a rendering    *)
(* may go on writing after a write_str failed, and returns Ok or Err as it *)
(* likes                                                                   *)

Pieces == {<<>>, <<"a">>, <<"b", "c">>, <<"d", "e", "f">>}

BufInit ==
    /\ mem = [x \in Addr |-> 0]
    /\ cells = [c \in CellIds |-> [st |-> "none", addr |-> Slot(c), len |-> 0]]
    /\ views = [id \in ViewIds |-> NoView]
    /\ created = NoCreated
    /\ obs = NoObs
    /\ result = [c \in CellIds |-> NoValue]
    /\ shadow = [c \in CellIds |-> NoValue]
    /\ newArg = [c \in CellIds |-> NoValue]
    /\ dirty = [c \in CellIds |-> FALSE]
    /\ pc = [p \in Callers |-> "none"]
    /\ own = [p \in Callers |-> NoValue]
    /\ \E n \in 0..MaxBuf :
        /\ arena = FreshArena(n)
        /\ w = Buffer_new(n)
    /\ fmtReq = [trait |-> "writing"]
    /\ fmtRes = [ok |-> FALSE]
    /\ log = <<>>

\* let mut w = Buffer::new(buffer), the buffer as the last call left it
BufStart ==
    /\ fmtReq.trait = "returned"
    /\ w' = Buffer_new(w.len)
    /\ fmtReq' = [trait |-> "writing"]
    /\ fmtRes' = [ok |-> FALSE]
    /\ log' = <<>>
    /\ UNCHANGED <<arena, cellVars, concVars>>

\* the rendering calls w.write_str(s)
BufWrite ==
    /\ fmtReq.trait = "writing"
    /\ Len(log) < MaxWrites
    /\ \E s \in Pieces :
        LET r == write_str(arena, w, s)
        IN /\ arena' = r.arena
           /\ w' = r.w
           /\ log' = Append(log, [s |-> s, ok |-> r.ok])
    /\ UNCHANGED <<fmtReq, fmtRes, cellVars, concVars>>

\* core::fmt::write(&mut w, args)? returns what the rendering returned, Ok
\* or Err (err), whatever its writes did; then w.as_str().ok_or(Error)
BufReturn ==
    /\ fmtReq.trait = "writing"
    /\ \E err \in BOOLEAN :
        LET str == as_str(arena, w)
        IN /\ fmtRes' = IF err \/ ~str.some
                        THEN [ok |-> FALSE, text |-> <<>>]
                        ELSE [ok |-> TRUE, text |-> str.str]
           /\ fmtReq' = [trait |-> "returned", err |-> err]
    /\ UNCHANGED <<arena, w, log, cellVars, concVars>>

BufNext ==
    \/ BufStart
    \/ BufWrite
    \/ BufReturn

SpecBuf == BufInit /\ [][BufNext]_vars

----------------------------------------------------------------------------
(* Rendering.  The contained types of tests::formatting are i32 and        *)
(* *const u8; their own renderings are core's, without width, precision or *)
(* flags, given here as the pieces core hands to write_str.                *)

LowerDigits == <<"0", "1", "2", "3", "4", "5", "6", "7", "8", "9", "a", "b", "c", "d", "e", "f">>
UpperDigits == <<"0", "1", "2", "3", "4", "5", "6", "7", "8", "9", "A", "B", "C", "D", "E", "F">>

IntBits == 32

RECURSIVE Pow2(_)
Pow2(k) == IF k = 0 THEN 1 ELSE 2 * Pow2(k - 1)

\* the digits of n >= 0 in a base, most significant first
RECURSIVE Digits(_, _, _)
Digits(n, base, tab) ==
    IF n < base THEN <<tab[n + 1]>>
    ELSE Digits(n \div base, base, tab) \o <<tab[(n % base) + 1]>>

\* the digits, most significant first, of the u32 with the bits of the i32
\* n, in base 2^bitsPer: bitsPer bits at a time from the low end, with
\* floored \div and % so that a negative n yields its two's complement
RECURSIVE RadixDigits(_, _, _)
RadixDigits(n, bitsPer, bitsLeft) ==
    IF bitsLeft <= 0 THEN <<>>
    ELSE RadixDigits(n \div Pow2(bitsPer), bitsPer, bitsLeft - bitsPer)
            \o <<n % Pow2(Min(bitsPer, bitsLeft))>>

RECURSIVE StripLeading(_)
StripLeading(ds) == IF Len(ds) > 1 /\ ds[1] = 0 THEN StripLeading(Tail(ds)) ELSE ds

Radix(n, bitsPer, tab) ==
    LET ds == StripLeading(RadixDigits(n, bitsPer, IntBits))
    IN [i \in 1..Len(ds) |-> tab[ds[i] + 1]]

Abs(n) == IF n < 0 THEN 0 - n ELSE n
Sign(n) == IF n < 0 THEN <<<<"-">>>> ELSE <<>>

RECURSIVE StripZeros(_)
StripZeros(ds) ==
    IF Len(ds) > 1 /\ ds[Len(ds)] = "0" THEN StripZeros(SubSeq(ds, 1, Len(ds) - 1)) ELSE ds

\* n in scientific notation: the sign, then d.ddde<exponent> as one piece
ExpParts(n, e) ==
    LET ds == Digits(Abs(n), 10, LowerDigits)
        m == StripZeros(ds)
    IN Sign(n) \o
       << (IF Len(m) > 1 THEN <<m[1], ".">> \o Tail(m) ELSE m)
            \o <<e>> \o Digits(Len(ds) - 1, 10, LowerDigits) >>

\* <T as Trait>::fmt for the contained value x of type ty
InnerFmt(trait, ty, x) ==
    CASE trait = "Display" -> Sign(x) \o <<Digits(Abs(x), 10, LowerDigits)>>
      [] trait = "Octal" -> <<Radix(x, 3, LowerDigits)>>
      [] trait = "LowerHex" -> <<Radix(x, 4, LowerDigits)>>
      [] trait = "UpperHex" -> <<Radix(x, 4, UpperDigits)>>
      [] trait = "Binary" -> <<Radix(x, 1, LowerDigits)>>
      [] trait = "LowerExp" -> ExpParts(x, "e")
      [] trait = "UpperExp" -> ExpParts(x, "E")
      [] trait = "Pointer" -> << <<"0", "x">>, Digits(x, 16, LowerDigits) >>
      [] trait = "Debug" ->
            IF ty = "ptr" THEN << <<"0", "x">>, Digits(x, 16, LowerDigits) >>
            ELSE Sign(x) \o <<Digits(Abs(x), 10, LowerDigits)>>

\* which renderings a contained type has (the impls' trait bounds)
Traits(ty) ==
    IF ty = "ptr" THEN {"Debug", "Pointer"}
    ELSE {"Debug", "Display", "Octal", "LowerHex", "UpperHex", "Binary", "LowerExp", "UpperExp"}

\* *self.get() of a cell around a scalar
Contained(m, cl) == ReadVia(m, get(cl))[1]

\* impl Debug: f.debug_tuple("NearSafeCell").field(self.get()).finish()
Debug_fmt_forward(m, cl, ty) == InnerFmt("Debug", ty, Contained(m, cl))
Debug_fmt(m, cl, ty) ==
    << <<"N", "e", "a", "r", "S", "a", "f", "e", "C", "e", "l", "l">>, <<"(">> >>
        \o InnerFmt("Debug", ty, Contained(m, cl)) \o << <<")">> >>

\* the other impls: self.get().fmt(f)
Display_fmt(m, cl, ty) == InnerFmt("Display", ty, Contained(m, cl))
Octal_fmt(m, cl, ty) == InnerFmt("Octal", ty, Contained(m, cl))
LowerHex_fmt_upper(m, cl, ty) == InnerFmt("UpperHex", ty, Contained(m, cl))
LowerHex_fmt(m, cl, ty) == InnerFmt("LowerHex", ty, Contained(m, cl))
UpperHex_fmt(m, cl, ty) == InnerFmt("UpperHex", ty, Contained(m, cl))
Pointer_fmt(m, cl, ty) == InnerFmt("Pointer", ty, Contained(m, cl))
Binary_fmt(m, cl, ty) == InnerFmt("Binary", ty, Contained(m, cl))
LowerExp_fmt(m, cl, ty) == InnerFmt("LowerExp", ty, Contained(m, cl))
UpperExp_fmt(m, cl, ty) == InnerFmt("UpperExp", ty, Contained(m, cl))

----------------------------------------------------------------------------
(* tests::formatting (specification SpecFmt): one buffer, reused from call *)
(* to call, and cell 1 around a scalar                                     *)

FmtVals == {[ty |-> "i32", val |-> 42], [ty |-> "i32", val |-> 0],
            [ty |-> "i32", val |-> 100], [ty |-> "i32", val |-> -1],
            [ty |-> "ptr", val |-> 42]}

FmtInit ==
    /\ mem = [x \in Addr |-> 0]
    /\ cells = [c \in CellIds |-> [st |-> "none", addr |-> Slot(c), len |-> 0]]
    /\ views = [id \in ViewIds |-> NoView]
    /\ created = NoCreated
    /\ obs = NoObs
    /\ result = [c \in CellIds |-> NoValue]
    /\ shadow = [c \in CellIds |-> NoValue]
    /\ newArg = [c \in CellIds |-> NoValue]
    /\ dirty = [c \in CellIds |-> FALSE]
    /\ pc = [p \in Callers |-> "none"]
    /\ own = [p \in Callers |-> NoValue]
    /\ \E n \in {SmallBufLen, TestBufLen} :
        /\ arena = FreshArena(n)
        /\ w = Buffer_new(n)
    /\ fmtReq = [trait |-> "none"]
    /\ fmtRes = [ok |-> FALSE]
    /\ log = <<>>

\* let cell = NearSafeCell::new(x)
FmtNew ==
    \E x \in FmtVals :
        /\ cells[1].st = "none"
        /\ mem' = new(mem, cells[1].addr, <<x.val>>)
        /\ cells' = [cells EXCEPT ![1] = [st |-> "live", addr |-> cells[1].addr, len |-> 1]]
        /\ shadow' = [shadow EXCEPT ![1] = <<x.val>>]
        /\ newArg' = [newArg EXCEPT ![1] = <<x.val>>]
        /\ fmtReq' = [trait |-> "none", ty |-> x.ty, val |-> x.val]
        /\ fmtRes' = [ok |-> FALSE]
        /\ UNCHANGED <<views, created, obs, result, dirty, concVars, arena, w, log>>

\* format(&mut buffer, format_args!("{:..}", cell)) for one trait
Format(trait, pieces) ==
    /\ cells[1].st = "live"
    /\ trait \in Traits(fmtReq.ty)
    /\ LET r == format(arena, w.len, pieces)
       IN /\ arena' = r.arena
          /\ w' = r.w
          /\ fmtRes' = [ok |-> r.ok, text |-> r.text]
    /\ fmtReq' = [fmtReq EXCEPT !.trait = trait]
    /\ UNCHANGED <<cellVars, concVars, log>>

FormatDebug == Format("Debug", Debug_fmt(mem, cells[1], fmtReq.ty))
FormatDisplay == Format("Display", Display_fmt(mem, cells[1], fmtReq.ty))
FormatOctal == Format("Octal", Octal_fmt(mem, cells[1], fmtReq.ty))
FormatLowerHex == Format("LowerHex", LowerHex_fmt(mem, cells[1], fmtReq.ty))
FormatUpperHex == Format("UpperHex", UpperHex_fmt(mem, cells[1], fmtReq.ty))
FormatPointer == Format("Pointer", Pointer_fmt(mem, cells[1], fmtReq.ty))
FormatBinary == Format("Binary", Binary_fmt(mem, cells[1], fmtReq.ty))
FormatLowerExp == Format("LowerExp", LowerExp_fmt(mem, cells[1], fmtReq.ty))
FormatUpperExp == Format("UpperExp", UpperExp_fmt(mem, cells[1], fmtReq.ty))

FmtNext ==
    \/ FmtNew
    \/ FormatDebug
    \/ FormatDisplay
    \/ FormatOctal
    \/ FormatLowerHex
    \/ FormatUpperHex
    \/ FormatPointer
    \/ FormatBinary
    \/ FormatLowerExp
    \/ FormatUpperExp

SpecFmt == FmtInit /\ [][FmtNext]_vars

----------------------------------------------------------------------------
(* Properties of single-threaded use (specification Spec) *)

\* The elements of the value last written by the callers that sel selects
Selected(c, sel) == SubSeq(shadow[c], sel[1] + 1, sel[2])

SharedWholeIds(c) ==
    {id \in LiveOn(c) : views[id].kind = "shared" /\ views[id].sel = Whole(c)}

\* C1: unwrap() returns the value the cell holds when it is consumed; with
\* no write since new(v), that value is v (the round trip).
C1_RoundTrip ==
    \A c \in CellIds :
        cells[c].st = "consumed" =>
            /\ result[c] = shadow[c]
            /\ (~dirty[c] => result[c] = newArg[c])

C1_Witness ==
    /\ cells[1].st = "consumed"
    /\ ~dirty[1]
    /\ newArg[1] = <<1, 2, 3, 4, 5>>
    /\ result[1] = <<1, 2, 3, 4, 5>>

\* C2: a read through a shared view of the whole value (get, as_ref, deref)
\* returns the value most recently written, two live shared views read the
\* same value, and unwrap() returns the value last written.
C2_WriteVisibility ==
    /\ (obs # NoObs /\ Live(obs.id) /\ obs.id \in SharedWholeIds(views[obs.id].cell))
            => obs.val = shadow[views[obs.id].cell]
    /\ \A c \in CellIds : \A a, b \in SharedWholeIds(c) :
            ReadVia(mem, views[a]) = ReadVia(mem, views[b])
    /\ \A c \in CellIds : cells[c].st = "consumed" => result[c] = shadow[c]

C2_Witness ==
    /\ SharedWholeIds(1) = {1, 2}
    /\ newArg[1] = <<24>>
    /\ dirty[1]
    /\ obs # NoObs
    /\ obs.id = 2
    /\ obs.val = <<42>>

\* A step that writes, through the exclusive view id, inside the part of
\* the value that view was asked for
WritesInside(id) ==
    /\ Live(id)
    /\ views[id].kind = "mut"
    /\ views' = views
    /\ cells' = cells
    /\ shadow' # shadow
    /\ \A j \in 1..cells[views[id].cell].len :
        (j <= views[id].sel[1] \/ j > views[id].sel[2])
            => shadow'[views[id].cell][j] = shadow[views[id].cell][j]

\* C4 (the step): a write through the view of index_mut_unchecked(A) leaves
\* every element outside A as it was, in memory and as read through every
\* live shared view.
C4_FrameStep ==
    \A id \in ViewIds :
        (WritesInside(id) /\ views[id].sel # Whole(views[id].cell)) =>
            /\ \A j \in 1..cells[views[id].cell].len :
                (j <= views[id].sel[1] \/ j > views[id].sel[2])
                    => mem'[cells[views[id].cell].addr + j - 1]
                        = mem[cells[views[id].cell].addr + j - 1]
            /\ \A s \in ViewIds :
                (Live(s) /\ views[s].kind = "shared")
                    => ReadVia(mem', views[s]) = ReadVia(mem, views[s])

\* C4 (the states): a shared view of part B reads B's elements of the value
\* last written, whatever was written through a view of a disjoint part A,
\* and unwrap() returns the value with exactly the written elements replaced.
C4_FrameState ==
    /\ \A s \in ViewIds :
        (Live(s) /\ views[s].kind = "shared")
            => ReadVia(mem, views[s]) = Selected(views[s].cell, views[s].sel)
    /\ \A c \in CellIds : cells[c].st = "consumed" => result[c] = shadow[c]

\* C4: the frame of a partial unchecked write.
C4_Frame == [][C4_FrameStep]_vars /\ []C4_FrameState

\* [1,2,3,4,5], ..2 written to [24,42] while a shared view of 2.. is held
C4_Witness ==
    /\ newArg[1] = <<1, 2, 3, 4, 5>>
    /\ shadow[1] = <<24, 42, 3, 4, 5>>
    /\ \E s, x \in ViewIds :
        /\ Live(s) /\ views[s].kind = "shared" /\ views[s].sel = <<2, 5>>
        /\ Live(x) /\ views[x].kind = "mut" /\ views[x].sel = <<0, 2>>
        /\ obs # NoObs /\ obs.id = s /\ obs.val = <<3, 4, 5>>

\* C6: index_mut_unchecked(idx) makes an exclusive view of the selected part
\* only and never, not even for the time of the call, one of the whole
\* wrapped value; so no reference the call makes conflicts with a view that
\* is alive during the call (a live view of a part disjoint from idx is not
\* aliased by an exclusive view covering it).
C6_NoAliasingDuringIndexMut ==
    (created.ret # 0 /\ views[created.ret].kind = "mut"
        /\ views[created.ret].sel # Whole(views[created.ret].cell)) =>
        \A t \in created.tmp : \A id \in ViewIds \ {created.ret} :
            Live(id) => ~Conflict(t, views[id])

\* C7: get_ptr(), get_mut_ptr() and the views of get() and get_mut() are
\* one address, the one every view of the whole value taken earlier holds.
C7_AddressIdentity ==
    \A c \in CellIds :
        cells[c].st = "live" =>
            /\ get_ptr(cells[c]) = get_mut_ptr(cells[c])
            /\ get(cells[c]).ptr = get_ptr(cells[c])
            /\ get_mut(cells[c]).ptr = get_mut_ptr(cells[c])
            /\ \A id \in LiveOn(c) :
                views[id].sel = Whole(c) => views[id].ptr = get_ptr(cells[c])

\* a view from get_mut() held across a write
C7_Witness ==
    /\ cells[1].st = "live"
    /\ dirty[1]
    /\ Live(1)
    /\ views[1].kind = "mut"
    /\ views[1].sel = Whole(1)
    /\ views[1].ptr = get_mut_ptr(cells[1])
    /\ shadow[1] # newArg[1]

----------------------------------------------------------------------------
(* Properties of the lockstep run (specification SpecEquiv) *)

\* C3: with no other view alive, the view of get_mut_unsafe() behaves as the
\* view of get_mut(): the same reads, the same value left in the cell.
C3_UnsafeEquivalent ==
    /\ (obs # NoObs => obs.val = obs.val2)
    /\ (cells[1].st = "live" /\ cells[2].st = "live")
            => unwrap(mem, cells[1]) = unwrap(mem, cells[2])
    /\ (cells[1].st = "consumed" /\ cells[2].st = "consumed")
            => result[1] = result[2]
    /\ (Live(1) /\ Live(2)) =>
            /\ views[1].kind = views[2].kind
            /\ views[1].len = views[2].len
            /\ views[1].ptr - cells[1].addr = views[2].ptr - cells[2].addr

\* tests::usage: 24, then 42 written through the view, then read back
C3_Witness ==
    /\ newArg = <<<<24>>, <<24>>>>
    /\ Live(1) /\ Live(2)
    /\ obs # NoObs
    /\ obs.val = <<42>>
    /\ obs.val2 = <<42>>

----------------------------------------------------------------------------
(* Properties of the concurrent callers (specification SpecConc) *)

\* C5: a caller reads in its part only what it wrote itself (or the initial
\* values), and after both are done each part of the value is as its own
\* caller last wrote it, whatever the interleaving.
C5_NoInterference ==
    /\ (obs # NoObs => obs.val = own[obs.id])
    /\ \A p \in Callers :
        pc[p].at = "holding" => ReadVia(mem, views[p]) = own[p]
    /\ cells[1].st = "consumed" =>
        \A p \in Callers : SubSeq(result[1], pc[p].sel[1] + 1, pc[p].sel[2]) = own[p]

\* both callers wrote, interleaved, and the cell was unwrapped
C5_Witness ==
    /\ cells[1].st = "consumed"
    /\ pc[1].sel = <<0, 2>>
    /\ pc[2].sel = <<2, 5>>
    /\ own[1] = <<24, 42>>
    /\ own[2] = <<42, 4, 24>>
    /\ result[1] = <<24, 42, 42, 4, 24>>

----------------------------------------------------------------------------
(* Properties of the harness (specification SpecBuf) *)

Written == Concat([k \in 1..Len(log) |-> log[k].s])

\* what holds of the single writes: after a write that overflowed every
\* later write fails, a write is Ok exactly while the pieces so far fit, and
\* no byte outside the buffer is ever stored
WritesKeepToBuffer ==
    /\ \A j, k \in 1..Len(log) : (j < k /\ ~log[j].ok) => ~log[k].ok
    /\ \A k \in 1..Len(log) :
        log[k].ok <=> Len(Concat([i \in 1..k |-> log[i].s])) <= w.len
    /\ Len(arena) = w.len + GuardLen
    /\ \A i \in (w.len + 1)..Len(arena) : arena[i] = Guard

\* C10 as stated: format() returns Ok with the concatenation of the pieces
\* when they fit the buffer (also exactly), and an error when they do not;
\* after a write that overflowed every later write fails; no byte outside
\* the buffer is ever stored.
C10_FailsExactlyWhenTooSmall ==
    /\ fmtReq.trait = "returned" =>
        /\ Len(Written) <= w.len => (fmtRes.ok /\ fmtRes.text = Written)
        /\ Len(Written) > w.len => ~fmtRes.ok
    /\ WritesKeepToBuffer

\* C10 amended: format() returns Ok with the concatenation of the pieces
\* when they fit the buffer (also exactly) and the rendering returned Ok;
\* it returns an error when they do not fit or the rendering returned Err;
\* the rest as stated.
C10_FailsWhenTooSmallOrRenderingErr ==
    /\ fmtReq.trait = "returned" =>
        /\ (Len(Written) <= w.len /\ ~fmtReq.err)
                => (fmtRes.ok /\ fmtRes.text = Written)
        /\ (Len(Written) > w.len \/ fmtReq.err) => ~fmtRes.ok
    /\ WritesKeepToBuffer

\* a call that filled the buffer exactly, on top of an earlier call's bytes
C10_Witness ==
    /\ fmtReq.trait = "returned"
    /\ ~fmtReq.err
    /\ w.len = 3
    /\ Len(log) = 3
    /\ Written = <<"a", "b", "c">>
    /\ fmtRes.ok
    /\ fmtRes.text = <<"a", "b", "c">>

----------------------------------------------------------------------------
(* Properties of rendering (specification SpecFmt) *)

Rendered == fmtReq.trait \notin {"none"}

\* the text and the Result of rendering the pieces into a fresh buffer of
\* the length of the one in use
Direct(pieces) ==
    LET r == format(FreshArena(w.len), w.len, pieces)
    IN [ok |-> r.ok, text |-> r.text]

CellLabel == <<"C", "e", "l", "l">>
TypeLabel == <<"N", "e", "a", "r", "S", "a", "f", "e", "C", "e", "l", "l">>

\* C8 as stated: the debug rendering is Cell(<inner debug>), Cell(42) for 42.
C8_DebugLabelCell ==
    (Rendered /\ fmtReq.trait = "Debug") =>
        fmtRes = Direct(<<CellLabel, <<"(">>>>
                        \o InnerFmt("Debug", fmtReq.ty, fmtReq.val) \o <<<<")">>>>)

\* C8 amended: the debug rendering is NearSafeCell(<inner debug>), the
\* label being the type's own name; NearSafeCell(42) for 42.
C8_DebugLabelTypeName ==
    (Rendered /\ fmtReq.trait = "Debug") =>
        /\ fmtRes = Direct(<<TypeLabel, <<"(">>>>
                        \o InnerFmt("Debug", fmtReq.ty, fmtReq.val) \o <<<<")">>>>)
        /\ (fmtReq.ty = "i32" /\ fmtReq.val = 42 /\ w.len = TestBufLen) =>
            (fmtRes.ok /\ fmtRes.text = TypeLabel \o <<"(", "4", "2", ")">>)

C8_Witness ==
    /\ Rendered
    /\ fmtReq.trait = "Debug"
    /\ fmtReq.ty = "i32"
    /\ fmtReq.val = 42
    /\ w.len = TestBufLen
    /\ fmtRes.ok
    /\ Len(fmtRes.text) = 16

\* the texts tests::formatting expects of 42
Expected42(trait) ==
    CASE trait = "Display" -> <<"4", "2">>
      [] trait = "Octal" -> <<"5", "2">>
      [] trait = "LowerHex" -> <<"2", "a">>
      [] trait = "UpperHex" -> <<"2", "A">>
      [] trait = "Binary" -> <<"1", "0", "1", "0", "1", "0">>
      [] trait = "LowerExp" -> <<"4", ".", "2", "e", "1">>
      [] trait = "UpperExp" -> <<"4", ".", "2", "E", "1">>
      [] trait = "Pointer" -> <<"0", "x", "2", "a">>

\* C9: every rendering but Debug gives the text, and the success or
\* failure, of rendering the contained value itself in that format.
C9_FormattingPassthrough ==
    (Rendered /\ fmtReq.trait # "Debug") =>
        /\ fmtRes = Direct(InnerFmt(fmtReq.trait, fmtReq.ty, fmtReq.val))
        /\ (fmtReq.val = 42 /\ w.len = TestBufLen) =>
            (fmtRes.ok /\ fmtRes.text = Expected42(fmtReq.trait))

\* {:x} of 42 into the 32 byte buffer after an earlier, longer rendering
C9_Witness ==
    /\ Rendered
    /\ fmtReq.trait = "LowerHex"
    /\ fmtReq.val = 42
    /\ w.len = TestBufLen
    /\ fmtRes.ok
    /\ fmtRes.text = <<"2", "a">>
    /\ arena[3] # Nul

====
